---- MODULE Spec2Model ----
(***************************************************************************)
(* The FRI prover of risc0/zkp/src/prove/fri.rs as a state machine.        *)
(*                                                                         *)
(* Buffers are modelled by their sizes (in base field elements); the field *)
(* arithmetic, the NTT, the hash and the Merkle tree are external and only *)
(* their sizes, their order and the values drawn from the transcript's     *)
(* generator are kept.  `iop` is the history of the WriteIOP: every append *)
(* to the transcript and every draw from its generator, in program order,  *)
(* as triples <<kind, index, value>>.                                      *)
(***************************************************************************)
EXTENDS Integers, Sequences, FiniteSets

\* ---------------------------------------------------------------- bounds

\* Largest size (in base field elements) of the caller's coefficient buffer.
MaxSize == 9
\* The 32-bit values next_u32 may return are drawn from 0..MaxRng.
MaxRng == 6
\* The fold-mix challenges ExtElem::random may return are drawn from 0..MaxMix.
MaxMix == 1

\* ------------------------------------------------- protocol constants

\* crate::FRI_FOLD, FRI_MIN_DEGREE, INV_RATE, QUERIES and ExtElem::EXT_SIZE
\* are fixed per build; the model draws them once, in Init.
FoldFactors == {2, 4}
MinDegrees == {1, 2}
InvRates == {2, 4}
QueryCounts == {1, 2}
ExtSizes == {1, 2}

VARIABLES
    FRI_FOLD,        \* fold factor
    FRI_MIN_DEGREE,  \* minimum-degree threshold
    INV_RATE,        \* blow-up factor
    QUERIES,         \* number of queries
    EXT_SIZE,        \* extension degree
    input_size,      \* size of the caller's coefficient buffer (fri_prove's `coeffs` argument)
    orig_domain,     \* fri_prove: orig_domain
    coeffs,          \* fri_prove: size of the current `coeffs` buffer
    rounds,          \* fri_prove: Vec<ProveRoundInfo>, as [domain, coeffs, merkle]
    cur,             \* ProveRoundInfo::new: the locals of the round being built
    final_coeffs,    \* fri_prove: size of final_coeffs
    q,               \* fri_prove: number of queries completed
    pos,             \* fri_prove: the query's running position
    ri,              \* fri_prove: index (1-based) of the next round of rounds.iter_mut()
    iop,             \* WriteIOP: history of appends and generator draws
    pc,              \* position in fri_prove
    run,             \* 1: first execution, 2 and 3: a re-execution (replayed, fresh)
    prev,            \* history of the first execution, once it is re-executed
    hal,             \* Hal: history of the backend operations, <<op, dst, src>>
    coeffs_buf       \* fri_prove: the buffer `coeffs` refers to (0: the caller's)

vars == <<FRI_FOLD, FRI_MIN_DEGREE, INV_RATE, QUERIES, EXT_SIZE, input_size,
          orig_domain, coeffs, rounds, cur, final_coeffs, q, pos, ri, iop, pc,
          run, prev, hal, coeffs_buf>>

consts == <<FRI_FOLD, FRI_MIN_DEGREE, INV_RATE, QUERIES, EXT_SIZE, input_size>>

NoRound == [size |-> 0, domain |-> 0, evaluated |-> 0, evaluated_buf |-> 0,
            merkle |-> [rows |-> 0, cols |-> 0, queries |-> 0], fold_mix |-> 0]

\* ------------------------------------------------------------ transcript

Kind(e) == e[1]
Index(e) == e[2]
Value(e) == e[3]

IsDraw(e) == Kind(e) \in {"draw_mix", "draw_u32"}

\* The values drawn from the generator in history h, in order.
RECURSIVE Draws(_)
Draws(h) ==
    IF h = <<>> THEN <<>>
    ELSE LET e == h[Len(h)]
             r == Draws(SubSeq(h, 1, Len(h) - 1))
         IN IF IsDraw(e) THEN Append(r, Value(e)) ELSE r

\* The generator of the transcript: its outputs are a function of the seed and
\* of what was appended.  A first execution may see any value of `range`; a
\* re-execution from the same transcript state sees the same stream again.
Generator(range) ==
    LET k == Len(Draws(iop)) + 1
        tape == Draws(prev)
    IN IF run = 2 /\ k <= Len(tape) THEN {tape[k]} ELSE range

\* --------------------------------------------------------------- backend

\* A backend operation is recorded as <<op, dst, src>>: its name, the set of
\* buffers it writes and the set of buffers it reads.  Buffer 0 is the buffer
\* the caller passed to fri_prove; a clone of a buffer handle refers to the
\* same buffer.
Op(e) == e[1]
Dst(e) == e[2]
Src(e) == e[3]

\* The backend operations that write elements into their destination.
Writes == {"batch_expand", "batch_evaluate_ntt", "fri_fold",
           "eltwise_copy_elem", "batch_bit_reverse"}

\* hal.alloc_elem returns a buffer no earlier allocation returned.
NextBuf == Cardinality({j \in 1..Len(hal) : Op(hal[j]) = "alloc_elem"}) + 1

\* ------------------------------------------------------------------ Init

Init ==
    /\ FRI_FOLD \in FoldFactors
    /\ FRI_MIN_DEGREE \in MinDegrees
    /\ INV_RATE \in InvRates
    /\ QUERIES \in QueryCounts
    /\ EXT_SIZE \in ExtSizes
    /\ input_size \in 0..MaxSize
    /\ orig_domain = 0
    /\ coeffs = 0
    /\ rounds = <<>>
    /\ cur = NoRound
    /\ final_coeffs = 0
    /\ q = 0
    /\ pos = 0
    /\ ri = 0
    /\ iop = <<>>
    /\ pc = "entry"
    /\ run = 1
    /\ prev = <<>>
    /\ hal = <<>>
    /\ coeffs_buf = 0

\* --------------------------------------------------------------- fri_prove

\* fri_prove, lines 99-102; `coeffs` becomes a clone of the caller's handle.
EnterNoExtSize ==
    /\ pc = "entry"
    /\ orig_domain' = input_size * INV_RATE
    /\ rounds' = <<>>
    /\ coeffs' = input_size
    /\ coeffs_buf' = 0
    /\ pc' = "loop"
    /\ UNCHANGED <<consts, cur, final_coeffs, q, pos, ri, iop, run, prev, hal>>
Enter ==
    /\ pc = "entry"
    /\ orig_domain' = (input_size \div EXT_SIZE) * INV_RATE
    /\ rounds' = <<>>
    /\ coeffs' = input_size
    /\ coeffs_buf' = 0
    /\ pc' = "loop"
    /\ UNCHANGED <<consts, cur, final_coeffs, q, pos, ri, iop, run, prev, hal>>

\* The condition of the folding loop, line 103.
WhileCondGe == coeffs \div EXT_SIZE >= FRI_MIN_DEGREE
WhileCondExpanded == (coeffs \div EXT_SIZE) * INV_RATE > FRI_MIN_DEGREE
WhileCondNoExt == coeffs > FRI_MIN_DEGREE
WhileCond == coeffs \div EXT_SIZE > FRI_MIN_DEGREE

\* ProveRoundInfo::new, lines 43-63: sizes, expansion, NTT and the Merkle tree.
RoundEvaluateNoCommit ==
    /\ pc = "loop"
    /\ WhileCond
    /\ LET size == coeffs \div EXT_SIZE
           domain == size * INV_RATE
       IN cur' = [size |-> size, domain |-> domain, evaluated |-> domain * EXT_SIZE,
                  evaluated_buf |-> NextBuf,
                  merkle |-> [rows |-> domain \div FRI_FOLD,
                              cols |-> FRI_FOLD * EXT_SIZE,
                              queries |-> QUERIES],
                  fold_mix |-> 0]
    /\ hal' = hal \o << <<"alloc_elem", {NextBuf}, {}>>,
                         <<"batch_expand", {NextBuf}, {coeffs_buf}>>,
                         <<"batch_evaluate_ntt", {NextBuf}, {NextBuf}>>,
                         <<"MerkleTreeProver::new", {}, {NextBuf}>> >>
    /\ pc' = "mix"
    /\ UNCHANGED <<consts, orig_domain, coeffs, rounds, final_coeffs, q, pos, ri, iop, run, prev, coeffs_buf>>
RoundEvaluateNoBlowup ==
    /\ pc = "loop"
    /\ WhileCond
    /\ LET size == coeffs \div EXT_SIZE
           domain == size
       IN cur' = [size |-> size, domain |-> domain, evaluated |-> domain * EXT_SIZE,
                  evaluated_buf |-> NextBuf,
                  merkle |-> [rows |-> domain \div FRI_FOLD,
                              cols |-> FRI_FOLD * EXT_SIZE,
                              queries |-> QUERIES],
                  fold_mix |-> 0]
    /\ hal' = hal \o << <<"alloc_elem", {NextBuf}, {}>>,
                         <<"batch_expand", {NextBuf}, {coeffs_buf}>>,
                         <<"batch_evaluate_ntt", {NextBuf}, {NextBuf}>>,
                         <<"MerkleTreeProver::new", {}, {NextBuf}>> >>
    /\ pc' = "commit"
    /\ UNCHANGED <<consts, orig_domain, coeffs, rounds, final_coeffs, q, pos, ri, iop, run, prev, coeffs_buf>>
RoundEvaluate ==
    /\ pc = "loop"
    /\ WhileCond
    /\ LET size == coeffs \div EXT_SIZE
           domain == size * INV_RATE
       IN cur' = [size |-> size, domain |-> domain, evaluated |-> domain * EXT_SIZE,
                  evaluated_buf |-> NextBuf,
                  merkle |-> [rows |-> domain \div FRI_FOLD,
                              cols |-> FRI_FOLD * EXT_SIZE,
                              queries |-> QUERIES],
                  fold_mix |-> 0]
    /\ hal' = hal \o << <<"alloc_elem", {NextBuf}, {}>>,
                         <<"batch_expand", {NextBuf}, {coeffs_buf}>>,
                         <<"batch_evaluate_ntt", {NextBuf}, {NextBuf}>>,
                         <<"MerkleTreeProver::new", {}, {NextBuf}>> >>
    /\ pc' = "commit"
    /\ UNCHANGED <<consts, orig_domain, coeffs, rounds, final_coeffs, q, pos, ri, iop, run, prev, coeffs_buf>>

\* ProveRoundInfo::new, line 65: merkle.commit(iop) appends the root.
RoundCommit ==
    /\ pc = "commit"
    /\ iop' = Append(iop, <<"root", Len(rounds) + 1, cur.merkle.rows>>)
    /\ pc' = "mix"
    /\ UNCHANGED <<consts, orig_domain, coeffs, rounds, cur, final_coeffs, q, pos, ri, run, prev, hal, coeffs_buf>>

\* ProveRoundInfo::new, line 67: the fold-mix challenge is drawn.
RoundDrawMixTwice ==
    /\ pc = "mix"
    /\ \E v \in Generator(0..MaxMix) :
          /\ cur' = [cur EXCEPT !.fold_mix = v]
          /\ iop' = iop \o << <<"draw_mix", Len(rounds) + 1, v>>,
                               <<"draw_mix", Len(rounds) + 1, v>> >>
    /\ pc' = "fold"
    /\ UNCHANGED <<consts, orig_domain, coeffs, rounds, final_coeffs, q, pos, ri, run, prev, hal, coeffs_buf>>
RoundDrawMix ==
    /\ pc = "mix"
    /\ \E v \in Generator(0..MaxMix) :
          /\ cur' = [cur EXCEPT !.fold_mix = v]
          /\ iop' = Append(iop, <<"draw_mix", Len(rounds) + 1, v>>)
    /\ pc' = "fold"
    /\ UNCHANGED <<consts, orig_domain, coeffs, rounds, final_coeffs, q, pos, ri, run, prev, hal, coeffs_buf>>

\* ProveRoundInfo::new, lines 69-76, and the loop body, lines 105-106.
RoundFoldNoExt ==
    /\ pc = "fold"
    /\ LET out_coeffs == cur.size \div FRI_FOLD
       IN /\ rounds' = Append(rounds, [domain |-> cur.domain, coeffs |-> out_coeffs,
                                        buf |-> NextBuf, merkle |-> cur.merkle])
          /\ coeffs' = out_coeffs
    /\ hal' = hal \o << <<"alloc_elem", {NextBuf}, {}>>,
                         <<"fri_fold", {NextBuf}, {coeffs_buf}>> >>
    /\ coeffs_buf' = NextBuf
    /\ cur' = NoRound
    /\ pc' = "loop"
    /\ UNCHANGED <<consts, orig_domain, final_coeffs, q, pos, ri, iop, run, prev>>
RoundFoldReplace ==
    /\ pc = "fold"
    /\ LET out_coeffs == (cur.size \div FRI_FOLD) * EXT_SIZE
       IN /\ rounds' = <<[domain |-> cur.domain, coeffs |-> out_coeffs,
                          buf |-> NextBuf, merkle |-> cur.merkle]>>
          /\ coeffs' = out_coeffs
    /\ hal' = hal \o << <<"alloc_elem", {NextBuf}, {}>>,
                         <<"fri_fold", {NextBuf}, {coeffs_buf}>> >>
    /\ coeffs_buf' = NextBuf
    /\ cur' = NoRound
    /\ pc' = "loop"
    /\ UNCHANGED <<consts, orig_domain, final_coeffs, q, pos, ri, iop, run, prev>>
RoundFold ==
    /\ pc = "fold"
    /\ LET out_coeffs == (cur.size \div FRI_FOLD) * EXT_SIZE
       IN /\ rounds' = Append(rounds, [domain |-> cur.domain, coeffs |-> out_coeffs,
                                        buf |-> NextBuf, merkle |-> cur.merkle])
          /\ coeffs' = out_coeffs
    /\ hal' = hal \o << <<"alloc_elem", {NextBuf}, {}>>,
                         <<"fri_fold", {NextBuf}, {coeffs_buf}>> >>
    /\ coeffs_buf' = NextBuf
    /\ cur' = NoRound
    /\ pc' = "loop"
    /\ UNCHANGED <<consts, orig_domain, final_coeffs, q, pos, ri, iop, run, prev>>

\* fri_prove, lines 109-111: the final coefficients, copied and bit-reversed.
FinalCopyOfInput ==
    /\ pc = "loop"
    /\ ~WhileCond
    /\ final_coeffs' = input_size
    /\ hal' = hal \o << <<"alloc_elem", {NextBuf}, {}>>,
                         <<"eltwise_copy_elem", {NextBuf}, {0}>>,
                         <<"batch_bit_reverse", {NextBuf}, {NextBuf}>> >>
    /\ pc' = "write_final"
    /\ UNCHANGED <<consts, orig_domain, coeffs, rounds, cur, q, pos, ri, iop, run, prev, coeffs_buf>>
FinalCopyInPlace ==
    /\ pc = "loop"
    /\ ~WhileCond
    /\ final_coeffs' = coeffs
    /\ hal' = hal \o << <<"batch_bit_reverse", {coeffs_buf}, {coeffs_buf}>> >>
    /\ pc' = "write_final"
    /\ UNCHANGED <<consts, orig_domain, coeffs, rounds, cur, q, pos, ri, iop, run, prev, coeffs_buf>>
FinalCopy ==
    /\ pc = "loop"
    /\ ~WhileCond
    /\ final_coeffs' = coeffs
    /\ hal' = hal \o << <<"alloc_elem", {NextBuf}, {}>>,
                         <<"eltwise_copy_elem", {NextBuf}, {coeffs_buf}>>,
                         <<"batch_bit_reverse", {NextBuf}, {NextBuf}>> >>
    /\ pc' = "write_final"
    /\ UNCHANGED <<consts, orig_domain, coeffs, rounds, cur, q, pos, ri, iop, run, prev, coeffs_buf>>

\* fri_prove, line 114: the final polynomial is written.
WriteFinalNoDigest ==
    /\ pc = "write_final"
    /\ iop' = Append(iop, <<"final", 0, final_coeffs>>)
    /\ q' = 0
    /\ pc' = "query"
    /\ UNCHANGED <<consts, orig_domain, coeffs, rounds, cur, final_coeffs, pos, ri, run, prev, hal, coeffs_buf>>
WriteFinal ==
    /\ pc = "write_final"
    /\ iop' = Append(iop, <<"final", 0, final_coeffs>>)
    /\ pc' = "digest"
    /\ UNCHANGED <<consts, orig_domain, coeffs, rounds, cur, final_coeffs, q, pos, ri, run, prev, hal, coeffs_buf>>

\* fri_prove, lines 115-116: the digest of the same view is committed.
CommitDigestOfInput ==
    /\ pc = "digest"
    /\ iop' = Append(iop, <<"digest", 0, input_size>>)
    /\ q' = 0
    /\ pc' = "query"
    /\ UNCHANGED <<consts, orig_domain, coeffs, rounds, cur, final_coeffs, pos, ri, run, prev, hal, coeffs_buf>>
CommitDigest ==
    /\ pc = "digest"
    /\ iop' = Append(iop, <<"digest", 0, final_coeffs>>)
    /\ q' = 0
    /\ pc' = "query"
    /\ UNCHANGED <<consts, orig_domain, coeffs, rounds, cur, final_coeffs, pos, ri, run, prev, hal, coeffs_buf>>

\* The bound of the query loop, line 120.
MoreQueriesOffByOne == q < QUERIES - 1
MoreQueries == q < QUERIES

\* fri_prove, lines 120-123: next_u32, reduced modulo orig_domain.  The
\* remainder by a zero orig_domain panics, after the draw.
QueryDrawFresh ==
    /\ pc = "query"
    /\ MoreQueries
    /\ \E rng \in 0..MaxRng :
          /\ iop' = Append(iop, <<"draw_u32", q + 1, rng>>)
          /\ IF orig_domain = 0
             THEN pc' = "abort" /\ pos' = pos
             ELSE pc' = "callback" /\ pos' = rng % orig_domain
    /\ UNCHANGED <<consts, orig_domain, coeffs, rounds, cur, final_coeffs, q, ri, run, prev, hal, coeffs_buf>>
QueryDrawNoCallback ==
    /\ pc = "query"
    /\ MoreQueries
    /\ \E rng \in Generator(0..MaxRng) :
          /\ iop' = Append(iop, <<"draw_u32", q + 1, rng>>)
          /\ IF orig_domain = 0
             THEN pc' = "abort" /\ pos' = pos /\ ri' = ri
             ELSE pc' = "rounds" /\ pos' = rng % orig_domain /\ ri' = 1
    /\ UNCHANGED <<consts, orig_domain, coeffs, rounds, cur, final_coeffs, q, run, prev, hal, coeffs_buf>>
QueryDrawUnreduced ==
    /\ pc = "query"
    /\ MoreQueries
    /\ \E rng \in Generator(0..MaxRng) :
          /\ iop' = Append(iop, <<"draw_u32", q + 1, rng>>)
          /\ IF orig_domain = 0
             THEN pc' = "abort" /\ pos' = pos
             ELSE pc' = "callback" /\ pos' = rng
    /\ UNCHANGED <<consts, orig_domain, coeffs, rounds, cur, final_coeffs, q, ri, run, prev, hal, coeffs_buf>>
QueryDraw ==
    /\ pc = "query"
    /\ MoreQueries
    /\ \E rng \in Generator(0..MaxRng) :
          /\ iop' = Append(iop, <<"draw_u32", q + 1, rng>>)
          /\ IF orig_domain = 0
             THEN pc' = "abort" /\ pos' = pos
             ELSE pc' = "callback" /\ pos' = rng % orig_domain
    /\ UNCHANGED <<consts, orig_domain, coeffs, rounds, cur, final_coeffs, q, ri, run, prev, hal, coeffs_buf>>

\* fri_prove, line 125: the caller's callback, which appends its own data.
Callback ==
    /\ pc = "callback"
    /\ iop' = Append(iop, <<"callback", q + 1, pos>>)
    /\ ri' = 1
    /\ pc' = "rounds"
    /\ UNCHANGED <<consts, orig_domain, coeffs, rounds, cur, final_coeffs, q, pos, run, prev, hal, coeffs_buf>>

\* ProveRoundInfo::prove_query, line 81: the group of a position.
GroupNoFold(round, p) == p % round.domain
Group(round, p) == p % (round.domain \div FRI_FOLD)

\* fri_prove, lines 127-128, and prove_query, lines 79-86.  The remainder by
\* a zero domain / FRI_FOLD panics; a round has more than FRI_MIN_DEGREE >= 1
\* coefficients, so its domain is at least 2 * INV_RATE, which is at least
\* FRI_FOLD for the constants drawn in Init (as for the crate's own).
ProveQueryShrinksDomain ==
    /\ pc = "rounds"
    /\ ri <= Len(rounds)
    /\ IF rounds[ri].domain \div FRI_FOLD = 0
       THEN /\ pc' = "abort"
            /\ UNCHANGED <<iop, pos, ri, rounds>>
       ELSE /\ iop' = Append(iop, <<"opening", ri, Group(rounds[ri], pos)>>)
            /\ pos' = Group(rounds[ri], pos)
            /\ rounds' = [rounds EXCEPT ![ri].domain = @ \div FRI_FOLD]
            /\ ri' = ri + 1
            /\ pc' = "rounds"
    /\ UNCHANGED <<consts, orig_domain, coeffs, cur, final_coeffs, q, run, prev, hal, coeffs_buf>>
ProveQuery ==
    /\ pc = "rounds"
    /\ ri <= Len(rounds)
    /\ IF rounds[ri].domain \div FRI_FOLD = 0
       THEN /\ pc' = "abort"
            /\ UNCHANGED <<iop, pos, ri>>
       ELSE /\ iop' = Append(iop, <<"opening", ri, Group(rounds[ri], pos)>>)
            /\ pos' = Group(rounds[ri], pos)
            /\ ri' = ri + 1
            /\ pc' = "rounds"
    /\ UNCHANGED <<consts, orig_domain, coeffs, rounds, cur, final_coeffs, q, run, prev, hal, coeffs_buf>>

\* fri_prove, lines 127 and 120: the rounds are exhausted, the next query.
EndQuerySkipsLast ==
    /\ pc = "rounds"
    /\ ri >= Len(rounds)
    /\ q' = q + 1
    /\ pc' = "query"
    /\ UNCHANGED <<consts, orig_domain, coeffs, rounds, cur, final_coeffs, pos, ri, iop, run, prev, hal, coeffs_buf>>
EndQueryWhenStable ==
    /\ pc = "rounds"
    /\ (ri > Len(rounds) \/ pos = 0)
    /\ q' = q + 1
    /\ pc' = "query"
    /\ UNCHANGED <<consts, orig_domain, coeffs, rounds, cur, final_coeffs, pos, ri, iop, run, prev, hal, coeffs_buf>>
EndQuery ==
    /\ pc = "rounds"
    /\ ri > Len(rounds)
    /\ q' = q + 1
    /\ pc' = "query"
    /\ UNCHANGED <<consts, orig_domain, coeffs, rounds, cur, final_coeffs, pos, ri, iop, run, prev, hal, coeffs_buf>>

\* fri_prove, lines 120 and 131: the queries are exhausted, the call returns.
Return ==
    /\ pc = "query"
    /\ ~MoreQueries
    /\ pc' = "done"
    /\ UNCHANGED <<consts, orig_domain, coeffs, rounds, cur, final_coeffs, q, pos, ri, iop, run, prev, hal, coeffs_buf>>

Next ==
    \/ Enter
    \/ RoundEvaluate
    \/ RoundCommit
    \/ RoundDrawMix
    \/ RoundFold
    \/ FinalCopy
    \/ WriteFinal
    \/ CommitDigest
    \/ QueryDraw
    \/ Callback
    \/ ProveQuery
    \/ EndQuery
    \/ Return

Spec == Init /\ [][Next]_vars

\* fri_prove is single-threaded and synchronous: a step that can be taken is
\* taken.
SpecLive == Spec /\ WF_vars(Next)

\* A second execution of fri_prove on the same input coefficients and the same
\* transcript state, once the first has ended.
Rerun ==
    /\ pc \in {"done", "abort"}
    /\ run = 1
    /\ run' = 2
    /\ prev' = iop
    /\ orig_domain' = 0
    /\ coeffs' = 0
    /\ rounds' = <<>>
    /\ cur' = NoRound
    /\ final_coeffs' = 0
    /\ q' = 0
    /\ pos' = 0
    /\ ri' = 0
    /\ iop' = <<>>
    /\ pc' = "entry"
    /\ hal' = <<>>
    /\ coeffs_buf' = 0
    /\ UNCHANGED consts

NextTwice == Next \/ Rerun

\* What is kept of a first history to compare the operations of a second
\* with: each event's kind and index and, of the first challenge and the
\* first position drawn, whether the value was 0.
Outline(h) ==
    [j \in 1..Len(h) |->
        <<Kind(h[j]), Index(h[j]),
          IF IsDraw(h[j]) /\ Index(h[j]) = 1 /\ Value(h[j]) # 0 THEN 1 ELSE 0>>]

\* A second execution of fri_prove on an input of the same size, with other
\* coefficient values and another generator stream: nothing is replayed.
RerunFresh ==
    /\ pc \in {"done", "abort"}
    /\ run = 1
    /\ run' = 3
    /\ prev' = Outline(iop)
    /\ orig_domain' = 0
    /\ coeffs' = 0
    /\ rounds' = <<>>
    /\ cur' = NoRound
    /\ final_coeffs' = 0
    /\ q' = 0
    /\ pos' = 0
    /\ ri' = 0
    /\ iop' = <<>>
    /\ pc' = "entry"
    /\ hal' = <<>>
    /\ coeffs_buf' = 0
    /\ UNCHANGED consts

NextVary == Next \/ RerunFresh

SpecVary == Init /\ [][NextVary]_vars

SpecTwice == Init /\ [][NextTwice]_vars

\* ------------------------------------------------------------ properties

\* Initial coefficient count, in extension elements.
N0 == input_size \div EXT_SIZE

\* Positions of fri_prove after the folding loop.
PostFolding == {"write_final", "digest", "query", "callback", "rounds", "done", "abort"}

\* Indices of the events of kind k in the history.
Events(k) == {j \in 1..Len(iop) : Kind(iop[j]) = k}

\* C1: every fold-mix challenge in the history is preceded by the Merkle root
\* of the same round: no challenge is drawn from a prefix without its root.
C1_CommitBeforeChallenge ==
    \A j \in Events("draw_mix") :
        \E k \in 1..(j - 1) : Kind(iop[k]) = "root" /\ Index(iop[k]) = Index(iop[j])

\* C1 witness: the challenge of a second round has been drawn.
C1_Witness ==
    \E j \in Events("draw_mix") : Index(iop[j]) = 2

\* The number of times n can be divided by f before the result is <= m,
\* computed directly from n (the least k with n div f^k <= m).
Divisions(n, f, m) ==
    CHOOSE k \in 0..n : /\ n \div (f ^ k) <= m
                        /\ \A j \in 0..(k - 1) : n \div (f ^ j) > m

\* C2: once the folding loop has ended, the number of rounds is the number of
\* times the initial coefficient count can be divided by F before it is <= M.
C2_RoundCount ==
    pc \in PostFolding => Len(rounds) = Divisions(N0, FRI_FOLD, FRI_MIN_DEGREE)

\* C2 witness: a run that ended its folding loop after three rounds.
C2_Witness ==
    pc = "done" /\ Len(rounds) = 3

\* Within a query (pc = "rounds"), the callback's event holds the starting
\* position and the ri - 1 events after it hold the positions after each round.
StartPos == Value(iop[Len(iop) - (ri - 1)])
PosAfter(i) == Value(iop[Len(iop) - (ri - 1) + i])

\* Coefficient count of round i (domain = size * INV_RATE).
RoundSize(i) == rounds[i].domain \div INV_RATE

\* C3 as stated: the position after round i is p mod (domain_i / F), for
\* every round i and every starting position p.
C3_DirectReduction ==
    pc = "rounds" =>
        \A i \in 1..(ri - 1) :
            PosAfter(i) = StartPos % (rounds[i].domain \div FRI_FOLD)

\* C3 amended: the position after round i is p mod (domain_i / F) provided
\* the coefficient count of every round up to i is a multiple of F.
C3_DirectReductionAligned ==
    pc = "rounds" =>
        /\ StartPos \in 0..(orig_domain - 1)
        /\ ri > 1 => pos = PosAfter(ri - 1)
        /\ \A i \in 1..(ri - 1) :
               (\A k \in 1..i : RoundSize(k) % FRI_FOLD = 0)
                   => PosAfter(i) = StartPos % (rounds[i].domain \div FRI_FOLD)

\* C3 witness: two rounds of aligned sizes have reduced a position that the
\* first round already changed.
C3_Witness ==
    /\ pc = "rounds"
    /\ ri = 3
    /\ \A k \in 1..2 : RoundSize(k) % FRI_FOLD = 0
    /\ PosAfter(1) # StartPos
    /\ PosAfter(2) # PosAfter(1)

\* Number of openings appended during query k (between the k-th position draw
\* and the next).
OpeningsOfQuery(k) ==
    Cardinality({j \in Events("opening") :
                    Cardinality({i \in 1..j : Kind(iop[i]) = "draw_u32"}) = k})

\* C4: a complete run draws QUERIES positions, each query appends one opening
\* per retained round, and QUERIES x R openings are appended in all.
C4_OpeningCount ==
    pc = "done" =>
        /\ Cardinality(Events("draw_u32")) = QUERIES
        /\ Cardinality(Events("callback")) = QUERIES
        /\ \A k \in 1..QUERIES : OpeningsOfQuery(k) = Len(rounds)
        /\ Cardinality(Events("opening")) = QUERIES * Len(rounds)
        /\ Cardinality(Events("root")) = Len(rounds)

\* C4 witness: a complete run of two queries over two rounds.
C4_Witness ==
    pc = "done" /\ QUERIES = 2 /\ Len(rounds) = 2

\* C5 as stated: for an input of a whole number of at least M coefficients,
\* the terminal reveal of a complete run holds M x EXT_SIZE elements.
C5_TerminalIsMinDegree ==
    (pc = "done" /\ input_size % EXT_SIZE = 0 /\ N0 >= FRI_MIN_DEGREE) =>
        \A j \in Events("final") : Value(iop[j]) = FRI_MIN_DEGREE * EXT_SIZE

\* C5 amended: the terminal reveal holds the elements of the buffer the
\* folding loop left: the input buffer's size after no round, otherwise
\* EXT_SIZE x (N div F^R); its coefficient count is at most M, and is M only
\* when N div F^R = M.
C5_TerminalSize ==
    /\ Cardinality(Events("final")) <= 1
    /\ pc \in {"digest", "query", "callback", "rounds", "done", "abort"}
           => Cardinality(Events("final")) = 1
    /\ \A j \in Events("final") :
           /\ Value(iop[j]) = IF Len(rounds) = 0 THEN input_size
                              ELSE EXT_SIZE * (N0 \div (FRI_FOLD ^ Len(rounds)))
           /\ Value(iop[j]) \div EXT_SIZE <= FRI_MIN_DEGREE

\* C5 witness: a complete run over at least one round whose terminal reveal
\* is smaller than M x EXT_SIZE.
C5_Witness ==
    /\ pc = "done"
    /\ Len(rounds) >= 1
    /\ \E j \in Events("final") :
           Value(iop[j]) > 0 /\ Value(iop[j]) < FRI_MIN_DEGREE * EXT_SIZE

\* The phase an event belongs to: folding, terminal reveal, querying.
Phase(e) ==
    CASE Kind(e) \in {"root", "draw_mix"} -> 1
      [] Kind(e) \in {"final", "digest"} -> 2
      [] OTHER -> 3

\* C6: the history moves through folding, terminal reveal and querying in
\* that order: no root or fold-mix draw after the terminal values, and no
\* position draw, callback or opening before the terminal values and digest.
C6_PhaseOrder ==
    /\ \A j \in 2..Len(iop) : Phase(iop[j - 1]) <= Phase(iop[j])
    /\ \A j \in 1..Len(iop) :
           (Phase(iop[j]) = 3 /\ (j = 1 \/ Phase(iop[j - 1]) # 3)) =>
               j > 2 /\ Kind(iop[j - 1]) = "digest"
    /\ \A j \in Events("digest") : j > 1 /\ Kind(iop[j - 1]) = "final"
    /\ Events("final") # {} => Cardinality(Events("root")) = Len(rounds)

\* C6 witness: a complete run that folded, revealed and queried twice.
C6_Witness ==
    pc = "done" /\ Len(rounds) >= 1 /\ QUERIES = 2

\* Index of the digest in the history (0: not appended yet).
DigestAt == IF Events("digest") = {} THEN 0 ELSE CHOOSE j \in Events("digest") : TRUE

\* C7: after the digest the history repeats, per query: the position draw,
\* the callback at that draw reduced modulo orig_domain, then one opening per
\* retained round in creation order.
C7_QueryOrder ==
    LET d == DigestAt
        period == Len(rounds) + 2
    IN d > 0 =>
        \A j \in (d + 1)..Len(iop) :
            LET off == (j - d - 1) % period
            IN CASE off = 0 -> Kind(iop[j]) = "draw_u32"
                 [] off = 1 -> /\ Kind(iop[j]) = "callback"
                               /\ orig_domain > 0
                               /\ Value(iop[j]) = Value(iop[j - 1]) % orig_domain
                 [] OTHER -> Kind(iop[j]) = "opening" /\ Index(iop[j]) = off - 1

\* C7 witness: the second query of a run over two rounds has opened both.
C7_Witness ==
    /\ pc = "rounds"
    /\ q = 1
    /\ Len(rounds) = 2
    /\ ri = 3

InvalidInputSize ==
    \/ input_size = 0
    \/ input_size % EXT_SIZE # 0
    \/ N0 < FRI_MIN_DEGREE

C10_GeometricDomains ==
    /\ Len(rounds) >= 1 => rounds[1].domain = orig_domain
    /\ \A i \in 1..(Len(rounds) - 1) :
           rounds[i + 1].domain * FRI_FOLD = rounds[i].domain

\* C10 amended: the round domains strictly decrease, the first is
\* orig_domain, and domain_{i+1} = (size_i div F) x INV_RATE, so that
\* domain_{i+1} x F <= domain_i with equality exactly when the coefficient
\* count of round i is a multiple of F.
C10_DecreasingDomains ==
    /\ Len(rounds) >= 1 => rounds[1].domain = orig_domain
    /\ \A i \in 1..(Len(rounds) - 1) :
           /\ rounds[i + 1].domain < rounds[i].domain
           /\ rounds[i + 1].domain = (RoundSize(i) \div FRI_FOLD) * INV_RATE
           /\ rounds[i + 1].domain * FRI_FOLD <= rounds[i].domain
           /\ (rounds[i + 1].domain * FRI_FOLD = rounds[i].domain)
                  <=> (RoundSize(i) % FRI_FOLD = 0)

\* C10 witness: two retained rounds whose domains are not in ratio F.
C10_Witness ==
    /\ Len(rounds) >= 2
    /\ rounds[2].domain * FRI_FOLD < rounds[1].domain

\* C11 as stated: the number of rounds is the number of divisions by F that
\* bring the expanded count (count x blow-up factor) at or below M.
C11_RoundCountExpanded ==
    pc \in PostFolding =>
        Len(rounds) = Divisions(N0 * INV_RATE, FRI_FOLD, FRI_MIN_DEGREE)

\* C11 amended: the number of rounds is the number of divisions by F that
\* bring the coefficient count itself (the original domain divided by the
\* blow-up factor) at or below M; the expanded count needs at least as many.
C11_RoundCountUnexpanded ==
    pc \in PostFolding =>
        /\ Len(rounds) = Divisions(orig_domain \div INV_RATE, FRI_FOLD, FRI_MIN_DEGREE)
        /\ Len(rounds) <= Divisions(orig_domain, FRI_FOLD, FRI_MIN_DEGREE)

\* C11 witness: a complete run with fewer rounds than the expanded count
\* would need.
C11_Witness ==
    /\ pc = "done"
    /\ Len(rounds) >= 1
    /\ Len(rounds) < Divisions(orig_domain, FRI_FOLD, FRI_MIN_DEGREE)

\* C12: the folding loop ends, every round is folded from a buffer of more
\* than M coefficients and the loop ends at the first count at or below M,
\* and a call on a positive coefficient count reaches its return.
C12_Termination ==
    /\ <>(pc \in PostFolding)
    /\ [](\A i \in 1..Len(rounds) :
             /\ RoundSize(i) > FRI_MIN_DEGREE
             /\ rounds[i].coeffs \div EXT_SIZE = RoundSize(i) \div FRI_FOLD)
    /\ [](pc \in PostFolding => coeffs \div EXT_SIZE <= FRI_MIN_DEGREE)
    /\ [](N0 > 0 => <>(pc = "done"))

\* C12 witness: a call on a positive count returned after two rounds.
C12_Witness ==
    pc = "done" /\ N0 > 0 /\ Len(rounds) = 2

\* C13: the terminal values are appended once, then once the digest of the
\* same values, directly after them; every root precedes them and every
\* position draw follows the digest.
C13_TerminalStep ==
    /\ Cardinality(Events("final")) <= 1
    /\ Cardinality(Events("digest")) <= 1
    /\ \A j \in Events("digest") :
           /\ j > 1
           /\ Kind(iop[j - 1]) = "final"
           /\ Value(iop[j]) = Value(iop[j - 1])
           /\ \A k \in Events("root") : k < j - 1
           /\ \A k \in Events("draw_u32") : k > j
    /\ \A j \in Events("final") : \A k \in Events("draw_u32") : k > j + 1
    /\ pc = "done" =>
           Cardinality(Events("final")) = 1 /\ Cardinality(Events("digest")) = 1

\* C13 witness: the first query position has been drawn after the terminal
\* step of a run that folded a round.
C13_Witness ==
    /\ Len(rounds) >= 1
    /\ Events("digest") # {}
    /\ Events("draw_u32") # {}
    /\ \E j \in Events("final") : Value(iop[j]) > 0

\* A step of prove_query that does not panic.
ProveQueryStep == pc = "rounds" /\ ri <= Len(rounds) /\ pc' # "abort"

\* C14: prove_query on round ri appends one opening of group
\* pos mod (domain / F) of that round, sets pos to that group and changes
\* neither the rounds nor any buffer.
C14_ProveQueryFrame ==
    [][ProveQueryStep =>
          LET group == pos % (rounds[ri].domain \div FRI_FOLD)
          IN /\ iop' = Append(iop, <<"opening", ri, group>>)
             /\ pos' = group
             /\ rounds' = rounds
             /\ <<coeffs, final_coeffs, orig_domain, cur, q>>
                    = <<coeffs', final_coeffs', orig_domain', cur', q'>>]_vars

\* C14 witness: prove_query has changed the position of a query.
C14_Witness ==
    pc = "rounds" /\ ri >= 2 /\ pos # StartPos

\* Size of the buffer round i was folded from.
InputOf(i) == IF i = 1 THEN input_size ELSE rounds[i - 1].coeffs

\* C15 as stated: a round of input size `size` has domain
\* (size / EXT_SIZE) x INV_RATE, a tree of domain / F rows of F x EXT_SIZE
\* elements, and a folded buffer of size / F elements.
C15_RoundSizes ==
    \A i \in 1..Len(rounds) :
        /\ rounds[i].domain = (InputOf(i) \div EXT_SIZE) * INV_RATE
        /\ rounds[i].merkle.rows = rounds[i].domain \div FRI_FOLD
        /\ rounds[i].merkle.cols = FRI_FOLD * EXT_SIZE
        /\ rounds[i].coeffs = InputOf(i) \div FRI_FOLD

\* C15 amended: the folded buffer has ((size / EXT_SIZE) / F) x EXT_SIZE
\* elements, which is size / F when size is a multiple of F x EXT_SIZE; it is
\* the input of the next round.  8 extension coefficients with blow-up 2
\* give the initial domain 16.
C15_RoundSizesFloor ==
    /\ \A i \in 1..Len(rounds) :
           /\ rounds[i].domain = (InputOf(i) \div EXT_SIZE) * INV_RATE
           /\ rounds[i].merkle.rows = rounds[i].domain \div FRI_FOLD
           /\ rounds[i].merkle.cols = FRI_FOLD * EXT_SIZE
           /\ rounds[i].merkle.queries = QUERIES
           /\ rounds[i].coeffs = ((InputOf(i) \div EXT_SIZE) \div FRI_FOLD) * EXT_SIZE
           /\ InputOf(i) % (FRI_FOLD * EXT_SIZE) = 0
                  => rounds[i].coeffs * FRI_FOLD = InputOf(i)
    /\ (pc = "loop" /\ Len(rounds) >= 1) => coeffs = rounds[Len(rounds)].coeffs
    /\ (N0 = 8 /\ INV_RATE = 2 /\ Len(rounds) >= 1) => rounds[1].domain = 16

\* C15 witness: the round of 8 extension coefficients with blow-up 2, and a
\* second round folded from its output.
C15_Witness ==
    /\ N0 = 8
    /\ INV_RATE = 2
    /\ Len(rounds) >= 2
    /\ rounds[1].domain = 16

\* C16: the position of query k + 1 is drawn directly after the draw of
\* query k, its callback and its R openings, in round order.
C16_QueryInterleaving ==
    \A j \in Events("draw_u32") :
        Index(iop[j]) >= 2 =>
            LET R == Len(rounds)
                b == j - R - 2
            IN /\ b >= 1
               /\ Kind(iop[b]) = "draw_u32"
               /\ Index(iop[b]) = Index(iop[j]) - 1
               /\ Kind(iop[b + 1]) = "callback"
               /\ Index(iop[b + 1]) = Index(iop[j]) - 1
               /\ \A i \in 1..R :
                      Kind(iop[b + 1 + i]) = "opening" /\ Index(iop[b + 1 + i]) = i

\* C16 witness: the position of a second query has been drawn in a run over
\* two rounds.
C16_Witness ==
    /\ Len(rounds) = 2
    /\ \E j \in Events("draw_u32") : Index(iop[j]) = 2

\* The kinds of operation of a history, with their round or query index and
\* without their values.
Shape(h) == [j \in 1..Len(h) |-> <<Kind(h[j]), Index(h[j])>>]

\* C17: a second execution on an input of the same size, whatever the values
\* drawn or committed, performs the same kinds of operation in the same order
\* as the first.
C17_SameControlFlow ==
    run = 3 =>
        /\ Len(iop) <= Len(prev)
        /\ Shape(iop) = Shape(SubSeq(prev, 1, Len(iop)))
        /\ pc \in {"done", "abort"} => Len(iop) = Len(prev)

\* C17 witness: a second execution completed with the same operations as the
\* first, whose first challenge is nonzero where the first execution drew zero
\* and whose first position draw is zero where the first drew a nonzero one.
C17_Witness ==
    /\ run = 3
    /\ pc = "done"
    /\ \E j \in Events("draw_mix") :
           Index(iop[j]) = 1 /\ Value(iop[j]) # 0 /\ Value(prev[j]) = 0
    /\ \E j \in Events("draw_u32") :
           Index(iop[j]) = 1 /\ Value(iop[j]) = 0 /\ Value(prev[j]) # 0

\* C18: a round is appended to the list only by the folding step, the rounds
\* already in the list never change (domain, commitment, order), and after
\* the folding loop the list holds one round per root appended, in order.
C18_RoundsRetained ==
    /\ [][\/ rounds' = rounds
          \/ /\ pc = "fold"
             /\ pc \notin PostFolding
             /\ Len(rounds') = Len(rounds) + 1
             /\ SubSeq(rounds', 1, Len(rounds)) = rounds]_vars
    /\ [](pc \in PostFolding =>
             /\ Len(rounds) = Cardinality(Events("root"))
             /\ \A j \in Events("root") :
                    /\ Index(iop[j]) \in 1..Len(rounds)
                    /\ rounds[Index(iop[j])].merkle.rows = Value(iop[j]))

\* C18 witness: a query has opened both rounds of a list of two.
C18_Witness ==
    pc = "rounds" /\ Len(rounds) = 2 /\ ri = 3

\* C19: the starting position of every query is below orig_domain, and
\* every index opened at a round is below the number of rows of that round's
\* tree, which is domain / F.
C19_LeafIndexInRange ==
    /\ \A j \in Events("callback") :
           Value(iop[j]) >= 0 /\ Value(iop[j]) < orig_domain
    /\ \A j \in Events("opening") :
           LET round == rounds[Index(iop[j])]
           IN /\ round.merkle.rows = round.domain \div FRI_FOLD
              /\ Value(iop[j]) >= 0
              /\ Value(iop[j]) < round.merkle.rows
    /\ pc \in {"callback", "rounds"} => pos >= 0 /\ pos < orig_domain

\* C19 witness: the last row of a round's tree has been opened.
C19_Witness ==
    \E j \in Events("opening") :
        /\ Value(iop[j]) = rounds[Index(iop[j])].merkle.rows - 1
        /\ Value(iop[j]) > 0

\* C20: a complete run draws R + QUERIES times: one challenge per round, each
\* before the terminal values, then one position per query, each after the
\* digest; nothing is drawn between the terminal values and the digest.
C20_DrawCount ==
    /\ \A j \in Events("draw_mix") : \A k \in Events("final") : j < k
    /\ \A j \in Events("draw_u32") : \A k \in Events("digest") : j > k
    /\ \A i \in 1..Len(rounds) :
           Cardinality({j \in Events("draw_mix") : Index(iop[j]) = i}) = 1
    /\ pc \in PostFolding => Cardinality(Events("draw_mix")) = Len(rounds)
    /\ pc = "done" =>
           /\ Cardinality(Events("draw_u32")) = QUERIES
           /\ Len(Draws(iop)) = Len(rounds) + QUERIES
           /\ \A k \in 1..QUERIES :
                  Cardinality({j \in Events("draw_u32") : Index(iop[j]) = k}) = 1

\* C20 witness: a complete run of two queries over three rounds.
C20_Witness ==
    pc = "done" /\ Len(rounds) = 3 /\ QUERIES = 2

\* C21: when the initial coefficient count is positive and at most the
\* minimum degree, no round is run: no root is appended, no fold-mix challenge
\* is drawn and no opening is appended; the terminal values are a copy of the
\* caller's buffer, of its size; and a complete run appends the terminal
\* values, the digest, and for each query its drawn position and its callback.
C21_ZeroRounds ==
    (N0 >= 1 /\ N0 <= FRI_MIN_DEGREE) =>
        /\ rounds = <<>>
        /\ pc \notin {"commit", "mix", "fold", "abort"}
        /\ Events("root") = {}
        /\ Events("draw_mix") = {}
        /\ Events("opening") = {}
        /\ \A j \in Events("final") : Value(iop[j]) = input_size
        /\ \A j \in 1..Len(hal) :
               /\ Op(hal[j]) \notin {"batch_expand", "batch_evaluate_ntt", "fri_fold"}
               /\ Op(hal[j]) = "eltwise_copy_elem" => Src(hal[j]) = {0}
        /\ pc = "done" =>
               /\ Len(iop) = 2 + 2 * QUERIES
               /\ Kind(iop[1]) = "final" /\ Kind(iop[2]) = "digest"
               /\ \A k \in 1..QUERIES :
                      /\ iop[2 * k + 1][1] = "draw_u32"
                      /\ iop[2 * k + 1][2] = k
                      /\ iop[2 * k + 2] =
                             <<"callback", k, iop[2 * k + 1][3] % orig_domain>>

\* C21 witness: a complete run of two queries whose input, of more than one
\* element, is already at the minimum degree.
C21_Witness ==
    /\ pc = "done" /\ QUERIES = 2
    /\ N0 = FRI_MIN_DEGREE /\ N0 = 2
    /\ rounds = <<>>

\* C22: no backend write targets a buffer fri_prove or ProveRoundInfo::new was
\* given: every write goes to a buffer allocated just before it, in the same
\* step, that nothing has read yet; the caller's buffer is never written; a
\* round's stored coefficients are written once, by the fold that produced
\* them; and the bit reversal is applied to the copy made just before it.
C22_InputsNeverWritten ==
    /\ \A j \in 1..Len(hal) :
           Op(hal[j]) \in Writes =>
               /\ 0 \notin Dst(hal[j])
               /\ \E k \in 1..(j - 1) :
                      /\ Op(hal[k]) = "alloc_elem"
                      /\ Dst(hal[k]) = Dst(hal[j])
                      /\ \A m \in k..j : Dst(hal[m]) = Dst(hal[j])
               /\ \A m \in 1..(j - 1) :
                      Src(hal[m]) \cap Dst(hal[j]) # {} => Dst(hal[m]) = Dst(hal[j])
    /\ \A i \in 1..Len(rounds) :
           /\ rounds[i].buf # 0
           /\ \A k \in 1..Len(rounds) : rounds[k].buf = rounds[i].buf => k = i
           /\ Cardinality({j \in 1..Len(hal) : /\ Op(hal[j]) \in Writes
                                                /\ rounds[i].buf \in Dst(hal[j])}) = 1
           /\ \A j \in 1..Len(hal) :
                  (Op(hal[j]) \in Writes /\ rounds[i].buf \in Dst(hal[j])) =>
                      /\ Op(hal[j]) = "fri_fold"
                      /\ Src(hal[j]) = {IF i = 1 THEN 0 ELSE rounds[i - 1].buf}
    /\ pc \in {"loop", "commit", "mix", "fold"} \cup PostFolding =>
           coeffs_buf = IF rounds = <<>> THEN 0 ELSE rounds[Len(rounds)].buf
    /\ \A j \in 1..Len(hal) :
           Op(hal[j]) = "batch_bit_reverse" =>
               /\ j > 1
               /\ hal[j - 1] = <<"eltwise_copy_elem", Dst(hal[j]), {coeffs_buf}>>
               /\ coeffs_buf \notin Dst(hal[j])
               /\ \A i \in 1..Len(rounds) : rounds[i].buf \notin Dst(hal[j])

\* C22 witness: the terminal copy of a two-round run has been bit-reversed,
\* after both rounds wrote their evaluations and folded coefficients.
C22_Witness ==
    /\ pc = "done" /\ Len(rounds) = 2
    /\ \E j \in 1..Len(hal) : Op(hal[j]) = "batch_bit_reverse"
    /\ \E j \in 1..Len(hal) : Op(hal[j]) = "fri_fold" /\ Src(hal[j]) = {0}

====
